---------------------------- MODULE Spec2Model ----------------------------
(***************************************************************************)
(* Register encoding layer of libarc2 (src/src/registers.rs).              *)
(*                                                                         *)
(* Every register is a value that serialises to a sequence of 32-bit       *)
(* words.  A u32 does not fit TLC's integers, so a word is the pair        *)
(* <<hi, lo>> of its upper and lower 16 bits; U32(hi, lo) is the number    *)
(* hi * 2^16 + lo.  A BitVec<Msb0, u32> is a sequence of BOOLEAN whose     *)
(* element i+1 is bit index i of the vector.                               *)
(***************************************************************************)
EXTENDS Integers, Sequences, FiniteSets, TLC

VARIABLES
    chanconf,       \* ChannelConf.bits
    chanconf_hist,  \* history: per channel, the state last written (0: never)
    dacvoltage,     \* DACVoltage.values
    sourceconf,     \* SourceConf.bits
    dacmask,        \* DACMask.bits
    dacmask_aux,    \* history: the AUX0, AUX1 bits as the start, the raw flag
                    \* API or clear() last left them
    u32mask,        \* U32Mask: [_words, bits]
    fixed,          \* OpCode, Empty or Terminate: [type, word]
    iter,           \* ChannelConfIterator over chanconf: [active, index]
    channels,       \* history: the argument of ChannelConf::new (0: no ChannelConf)
    overflow_checks,\* the build: TRUE when usize arithmetic that overflows
                    \* panics (debug profile), FALSE when it wraps (release)
    last            \* history: the last operation, its arguments, whether it panicked

vars ==
    << chanconf, chanconf_hist, dacvoltage, sourceconf, dacmask, dacmask_aux,
       u32mask, fixed, iter, overflow_checks, channels, last >>

---------------------------------------------------------------------------
(* Integer and bit helpers                                                 *)

Pow2(n) == 2 ^ n

\* bit k (0 = least significant) of the natural number x
BitOf(x, k) == (x \div Pow2(k)) % 2

RECURSIVE BitOr(_, _, _)
\* a | b on w-bit values
BitOr(a, b, w) ==
    IF w = 0 THEN 0
    ELSE (IF a % 2 = 1 \/ b % 2 = 1 THEN 1 ELSE 0)
         + 2 * BitOr(a \div 2, b \div 2, w - 1)

RECURSIVE BitAnd(_, _, _)
\* a & b on w-bit values
BitAnd(a, b, w) ==
    IF w = 0 THEN 0
    ELSE (IF a % 2 = 1 /\ b % 2 = 1 THEN 1 ELSE 0)
         + 2 * BitAnd(a \div 2, b \div 2, w - 1)

\* a u32 as its two 16-bit halves
U32(hi, lo) == <<hi, lo>>

\* bit k (0 = least significant) of the word w = <<hi, lo>>
WordBitLsb(w, k) == IF k >= 16 THEN BitOf(w[1], k - 16) ELSE BitOf(w[2], k)

\* the result of an operation that may panic
Ok(v) == [panic |-> FALSE, val |-> v]
Panic == [panic |-> TRUE, val |-> 0]

---------------------------------------------------------------------------
(* bitvec: BitVec<Msb0, u32>                                               *)

\* BitVec::repeat(bit, len)
BitVec_repeat(bit, len) == [i \in 1..len |-> bit]

\* BitSlice::set(index, value); the caller has checked index < len
BitVec_set(bv, index, value) == [bv EXCEPT ![index + 1] = value]

\* bits[a..b].store(val): the value's bit (b-a-1-k) goes to index a+k, so
\* that in Msb0 order the field reads as the number val (truncated to b-a bits)
BitVec_store(bv, a, b, val) ==
    [i \in 1..Len(bv) |->
        IF i - 1 >= a /\ i - 1 < b
        THEN BitOf(val, b - 1 - (i - 1)) = 1
        ELSE bv[i]]

RECURSIVE BitVec_load(_, _, _)
\* bits[a..b].load(): the number whose most significant bit is index a
BitVec_load(bv, a, b) ==
    IF a >= b THEN 0
    ELSE (IF bv[b] THEN 1 ELSE 0) + 2 * BitVec_load(bv, a, b - 1)

\* 16 bits of the raw storage starting at bit index from, Msb0; bits past
\* the vector's length are the zeros BitVec::repeat(false, _) allocated
RawHalf(bv, from) ==
    LET upto == IF from + 16 <= Len(bv) THEN from + 16 ELSE Len(bv)
        got  == IF upto > from THEN BitVec_load(bv, from, upto) ELSE 0
    IN  IF upto > from THEN got * Pow2(from + 16 - upto) ELSE 0

\* BitVec::as_raw_slice().to_vec(): the backing u32 elements
BitVec_as_raw_slice(bv) ==
    [w \in 1..((Len(bv) + 31) \div 32) |->
        U32(RawHalf(bv, 32 * (w - 1)), RawHalf(bv, 32 * (w - 1) + 16))]

---------------------------------------------------------------------------
(* channelconf: ChannelState and ChannelConf                               *)

CHANSIZE == 3

ChannelState_Open     == 1
ChannelState_CloseGND == 2
ChannelState_CapGND   == 3
ChannelState_VoltArb  == 4
ChannelState_CurArb   == 5
ChannelState_HiSpeed  == 6

\* the six variants of enum ChannelState, by discriminant
ChannelState ==
    { ChannelState_Open, ChannelState_CloseGND, ChannelState_CapGND,
      ChannelState_VoltArb, ChannelState_CurArb, ChannelState_HiSpeed }

\* ChannelState::from_u8 (derive FromPrimitive): Some(variant) or None
ChannelState_from_u8(v) == IF v \in ChannelState THEN Ok(v) ELSE Panic

\* ChannelState::as_bools: bools[i] = ((self >> i) & 1) == 1
ChannelState_as_bools(val) == [i \in 0..(CHANSIZE - 1) |-> BitOf(val, i) = 1]

\* mutant of ChannelState_from_bools: bools read least significant bit
\* first, the order of as_bools
ChannelState_from_bools_lsbfirst(bools) ==
    ChannelState_from_u8(
        BitVec_load([i \in 1..CHANSIZE |-> bools[CHANSIZE - i]], 0, CHANSIZE))

\* ChannelState::from_bools followed by the unwrap: bools[i] goes to bit
\* index 8-CHANSIZE+i of an Msb0 u8
ChannelState_from_bools(bools) ==
    ChannelState_from_u8(
        BitVec_load([i \in 1..CHANSIZE |-> bools[i - 1]], 0, CHANSIZE))

\* ChannelState::from_bitslice followed by the unwrap of from_u8; the
\* slice is a sequence of BOOLEAN.  Err (slice too small) is a panic at the
\* caller's unwrap.
ChannelState_from_bitslice(bools) ==
    IF Len(bools) < CHANSIZE THEN Panic
    ELSE LET len == IF Len(bools) > 8 THEN 8 ELSE Len(bools)
         IN  ChannelState_from_u8(BitVec_load(bools, 0, len))

\* A usize index or channel count.  The values below USIZE_WIDE are
\* themselves.  A value whose product with CHANSIZE does not fit the 64 bits of a usize is
\* written j * USIZE_WIDE + d, for j in 1..2 and d < USIZE_WIDE, and
\* stands for ceil(j * 2^64 / 3) + d: USIZE_WIDE + 0 is 6148914691236517206.
\* The encoding keeps the order of the indices and idx + 1.
USIZE_WIDE == 2 ^ 28

\* CHANSIZE * idx on usize: whether the product overflows, and the product
\* modulo 2^64.  2^64 = 1 (mod 3), so 3 * ceil(j * 2^64 / 3) is
\* j * 2^64 + (3 - j) % 3, and d more add 3 * d.
CHANSIZE_mul(idx) ==
    LET j == idx \div USIZE_WIDE
        d == idx % USIZE_WIDE
    IN  [overflow |-> j > 0,
         val |-> ((CHANSIZE - j) % CHANSIZE) + CHANSIZE * d]

\* ChannelConf::new(n): panics on the overflow of n * CHANSIZE where the
\* build checks it; else the register has the product modulo 2^64 bits,
\* all zero
ChannelConf_new(n) ==
    IF overflow_checks /\ CHANSIZE_mul(n).overflow THEN Panic
    ELSE Ok(BitVec_repeat(FALSE, CHANSIZE_mul(n).val))

\* ChannelConf::len
ChannelConf_len(bits) == Len(bits) \div CHANSIZE

\* whether ChannelConf::set panics: on the overflow of CHANSIZE*idx where
\* the build checks it, else in BitSlice::set on the first of the three
\* positions that is out of range
ChannelConf_set_panics(bits, idx) ==
    \/ overflow_checks /\ CHANSIZE_mul(idx).overflow
    \/ CHANSIZE_mul(idx).val + CHANSIZE - 1 >= Len(bits)

RECURSIVE ChannelConf_set_loop(_, _, _, _)
\* the loop of ChannelConf::set from i on, pos being the usize product
\* CHANSIZE * idx; the loop ends at the first position out of range
\* (BitSlice::set panics), the bits written before it stay written
ChannelConf_set_loop(bits, pos, bools, i) ==
    IF i >= CHANSIZE THEN bits
    ELSE IF pos + i >= Len(bits) THEN bits
    ELSE ChannelConf_set_loop(
            BitVec_set(bits, pos + i, bools[CHANSIZE - 1 - i]),
            pos, bools, i + 1)

\* ChannelConf::set(idx, val): the bits after the call, whether or not it
\* panics.  Where the build checks overflow, an overflowing CHANSIZE*idx
\* panics before the first write.
ChannelConf_set(bits, idx, val) ==
    IF overflow_checks /\ CHANSIZE_mul(idx).overflow THEN bits
    ELSE ChannelConf_set_loop(bits, CHANSIZE_mul(idx).val,
                              ChannelState_as_bools(val), 0)

\* ChannelConf::get(idx): panics on the overflow of idx*CHANSIZE or
\* (idx+1)*CHANSIZE where the build checks it, on a slice whose start is
\* past its end or whose end is out of range, and on a code that is no
\* ChannelState
ChannelConf_get(bits, idx) ==
    IF overflow_checks
       /\ (CHANSIZE_mul(idx).overflow \/ CHANSIZE_mul(idx + 1).overflow)
    THEN Panic
    ELSE IF \/ CHANSIZE_mul(idx).val > CHANSIZE_mul(idx + 1).val
            \/ CHANSIZE_mul(idx + 1).val > Len(bits)
    THEN Panic
    ELSE ChannelState_from_bitslice(
            SubSeq(bits, CHANSIZE_mul(idx).val + 1, CHANSIZE_mul(idx + 1).val))

RECURSIVE ChannelConf_set_all_loop(_, _, _)
\* the loop of ChannelConf::set_all from channel i on, up to self.len()
ChannelConf_set_all_loop(bits, val, i) ==
    IF i >= ChannelConf_len(bits) THEN bits
    ELSE ChannelConf_set_all_loop(ChannelConf_set(bits, i, val), val, i + 1)

\* ChannelConf::set_all(val)
ChannelConf_set_all(bits, val) == ChannelConf_set_all_loop(bits, val, 0)

\* impl ToU32s for ChannelConf
ChannelConf_as_u32s(bits) == BitVec_as_raw_slice(bits)

\* the end of an iteration: Option::None
ChannelConfIterator_None == 0

\* <&ChannelConf as IntoIterator>::into_iter
ChannelConfIterator_into_iter == [active |-> TRUE, index |-> 0]

\* ChannelConfIterator::next on the register bits: the item (a state, or
\* None at the end) and the iterator after the call; get panics before
\* the index moves
ChannelConfIterator_next(bits, it) ==
    IF it.index >= ChannelConf_len(bits)
    THEN [panic |-> FALSE, item |-> ChannelConfIterator_None, it |-> it]
    ELSE IF ChannelConf_get(bits, it.index).panic
    THEN [panic |-> TRUE, item |-> ChannelConfIterator_None, it |-> it]
    ELSE [panic |-> FALSE, item |-> ChannelConf_get(bits, it.index).val,
          it |-> [it EXCEPT !.index = it.index + 1]]

---------------------------------------------------------------------------
(* dacmask: the bitflags struct DACMask, its bits as a number              *)

DACMask_NONE    == 0
DACMask_CH00_03 == 1
DACMask_CH04_07 == 2
DACMask_CH08_11 == 4
DACMask_CH12_15 == 8
DACMask_CH16_19 == 16
DACMask_CH20_23 == 32
DACMask_CH24_27 == 64
DACMask_CH28_31 == 128
DACMask_CH32_35 == 256
DACMask_CH36_39 == 512
DACMask_CH40_43 == 1024
DACMask_CH44_47 == 2048
DACMask_CH48_51 == 4096
DACMask_CH52_55 == 8192
DACMask_CH56_59 == 16384
DACMask_CH60_63 == 32768
DACMask_AUX0    == 65536
DACMask_AUX1    == 131072

\* DACMask::ALL, the sixteen halves
DACMask_ALL ==
    DACMask_CH00_03 + DACMask_CH04_07 + DACMask_CH08_11 + DACMask_CH12_15 +
    DACMask_CH16_19 + DACMask_CH20_23 + DACMask_CH24_27 + DACMask_CH28_31 +
    DACMask_CH32_35 + DACMask_CH36_39 + DACMask_CH40_43 + DACMask_CH44_47 +
    DACMask_CH48_51 + DACMask_CH52_55 + DACMask_CH56_59 + DACMask_CH60_63

\* the number of bits a DACMask holds: the sixteen halves and AUX0, AUX1
DACMask_WIDTH == 18

\* DACMask::all().bits: every flag the struct defines
DACMask_all == DACMask_ALL + DACMask_AUX0 + DACMask_AUX1

\* mutant of CHANMAP: the table shifted by one channel, so that the last
\* channel of each half maps to the next flag
CHANMAP_shifted == [p \in 1..64 |-> Pow2(p \div 4)]

\* const CHANMAP: [DACMask; 64], element c at position c+1
CHANMAP ==
    << 
       DACMask_CH00_03, DACMask_CH00_03, DACMask_CH00_03, DACMask_CH00_03,
       DACMask_CH04_07, DACMask_CH04_07, DACMask_CH04_07, DACMask_CH04_07,
       DACMask_CH08_11, DACMask_CH08_11, DACMask_CH08_11, DACMask_CH08_11,
       DACMask_CH12_15, DACMask_CH12_15, DACMask_CH12_15, DACMask_CH12_15,
       DACMask_CH16_19, DACMask_CH16_19, DACMask_CH16_19, DACMask_CH16_19,
       DACMask_CH20_23, DACMask_CH20_23, DACMask_CH20_23, DACMask_CH20_23,
       DACMask_CH24_27, DACMask_CH24_27, DACMask_CH24_27, DACMask_CH24_27,
       DACMask_CH28_31, DACMask_CH28_31, DACMask_CH28_31, DACMask_CH28_31,
       DACMask_CH32_35, DACMask_CH32_35, DACMask_CH32_35, DACMask_CH32_35,
       DACMask_CH36_39, DACMask_CH36_39, DACMask_CH36_39, DACMask_CH36_39,
       DACMask_CH40_43, DACMask_CH40_43, DACMask_CH40_43, DACMask_CH40_43,
       DACMask_CH44_47, DACMask_CH44_47, DACMask_CH44_47, DACMask_CH44_47,
       DACMask_CH48_51, DACMask_CH48_51, DACMask_CH48_51, DACMask_CH48_51,
       DACMask_CH52_55, DACMask_CH52_55, DACMask_CH52_55, DACMask_CH52_55,
       DACMask_CH56_59, DACMask_CH56_59, DACMask_CH56_59, DACMask_CH56_59,
       DACMask_CH60_63, DACMask_CH60_63, DACMask_CH60_63, DACMask_CH60_63
    >>

\* impl Not for DACMask: the complement, truncated to the defined flags
DACMask_not(bits) == DACMask_all - bits

\* bitflags' DACMask::insert(other), the raw flag API
DACMask_insert(bits, other) == BitOr(bits, other, DACMask_WIDTH)

\* bitflags' DACMask::remove(other), the raw flag API
DACMask_remove(bits, other) ==
    BitAnd(bits, DACMask_not(other), DACMask_WIDTH)

\* CHANMAP[c] panics for an index outside the array
CHANMAP_panics(c) == c >= Len(CHANMAP)

RECURSIVE DACMask_set_channels_loop(_, _, _)
\* the loop of DACMask::set_channels from position k of chans on; a channel
\* outside CHANMAP panics with the earlier channels already applied
DACMask_set_channels_loop(bits, chans, k) ==
    IF k > Len(chans) THEN [panic |-> FALSE, val |-> bits]
    ELSE IF CHANMAP_panics(chans[k]) THEN [panic |-> TRUE, val |-> bits]
    ELSE DACMask_set_channels_loop(
            BitOr(bits, CHANMAP[chans[k] + 1], DACMask_WIDTH), chans, k + 1)

\* DACMask::set_channels(chans)
DACMask_set_channels(bits, chans) == DACMask_set_channels_loop(bits, chans, 1)

RECURSIVE DACMask_unset_channels_loop(_, _, _)
\* the loop of DACMask::unset_channels from position k of chans on
DACMask_unset_channels_loop(bits, chans, k) ==
    IF k > Len(chans) THEN [panic |-> FALSE, val |-> bits]
    ELSE IF CHANMAP_panics(chans[k]) THEN [panic |-> TRUE, val |-> bits]
    ELSE DACMask_unset_channels_loop(
            BitAnd(bits, DACMask_not(CHANMAP[chans[k] + 1]), DACMask_WIDTH),
            chans, k + 1)

RECURSIVE DACMask_unset_channels_all_loop(_, _, _)
\* mutant loop: *self &= DACMask::ALL & !CHANMAP[*c]
DACMask_unset_channels_all_loop(bits, chans, k) ==
    IF k > Len(chans) THEN [panic |-> FALSE, val |-> bits]
    ELSE IF CHANMAP_panics(chans[k]) THEN [panic |-> TRUE, val |-> bits]
    ELSE DACMask_unset_channels_all_loop(
            BitAnd(bits, DACMask_ALL - CHANMAP[chans[k] + 1], DACMask_WIDTH),
            chans, k + 1)

\* mutant of DACMask_unset_channels: the complement taken within
\* DACMask::ALL, which leaves out the auxiliary flags
DACMask_unset_channels_all(bits, chans) ==
    DACMask_unset_channels_all_loop(bits, chans, 1)

\* DACMask::unset_channels(chans)
DACMask_unset_channels(bits, chans) ==
    DACMask_unset_channels_loop(bits, chans, 1)

\* DACMask::set_channel(chan)
DACMask_set_channel(bits, chan) == DACMask_set_channels(bits, <<chan>>)

\* DACMask::unset_channel(chan)
DACMask_unset_channel(bits, chan) == DACMask_unset_channels(bits, <<chan>>)

\* DACMask::clear
DACMask_clear(bits) == 0

\* DACMask::as_u32, as the word <<hi, lo>>
DACMask_as_u32(bits) == U32(bits \div Pow2(16), bits % Pow2(16))

\* impl ToU32s for DACMask
DACMask_as_u32s(bits) == << DACMask_as_u32(bits) >>

---------------------------------------------------------------------------
(* sourceconf: CurrentSourceState and SourceConf                           *)

CurrentSourceState_Maintain   == 0
CurrentSourceState_Open       == 1
CurrentSourceState_VoltageArb == 2
CurrentSourceState_HiSpeed    == 3

\* the four variants of enum CurrentSourceState, by discriminant
CurrentSourceState ==
    { CurrentSourceState_Maintain, CurrentSourceState_Open,
      CurrentSourceState_VoltageArb, CurrentSourceState_HiSpeed }

\* CurrentSourceState::from_u8 (derive FromPrimitive) and the unwrap
CurrentSourceState_from_u8(v) ==
    IF v \in CurrentSourceState THEN Ok(v) ELSE Panic

\* the digipot value SourceConf::new stores
SourceConf_DEFAULT_DIGIPOT == \h1CD

\* the largest digipot value set_digipot lets through
SourceConf_MAX_DIGIPOT == \h300

\* SourceConf::new
SourceConf_new ==
    BitVec_store(BitVec_repeat(FALSE, 32), 0, 10, SourceConf_DEFAULT_DIGIPOT)

\* mutant of SourceConf_set_digipot: no clamp
SourceConf_set_digipot_unclamped(bits, val) == BitVec_store(bits, 0, 10, val)

\* mutant of SourceConf_set_digipot: the value stored in the last ten bits
SourceConf_set_digipot_lowbits(bits, val) ==
    LET actual_val == IF val > SourceConf_MAX_DIGIPOT
                      THEN SourceConf_MAX_DIGIPOT ELSE val
    IN  BitVec_store(bits, 22, 32, actual_val)

\* SourceConf::set_digipot(val)
SourceConf_set_digipot(bits, val) ==
    LET actual_val == IF val > SourceConf_MAX_DIGIPOT
                      THEN SourceConf_MAX_DIGIPOT ELSE val
    IN  BitVec_store(bits, 0, 10, actual_val)

\* SourceConf::get_digipot
SourceConf_get_digipot(bits) == BitVec_load(bits, 0, 10)

\* mutant of SourceConf_set_cursource_state: the state stored in the byte
\* before the last nibble
SourceConf_set_cursource_state_byte(bits, val) ==
    BitVec_store(bits, 24, 28, val)

\* SourceConf::set_cursource_state(val)
SourceConf_set_cursource_state(bits, val) == BitVec_store(bits, 28, 32, val)

\* SourceConf::get_cursource_state
SourceConf_get_cursource_state(bits) ==
    CurrentSourceState_from_u8(BitVec_load(bits, 24, 32))

\* impl ToU32s for SourceConf
SourceConf_as_u32s(bits) == BitVec_as_raw_slice(bits)

---------------------------------------------------------------------------
(* dacvoltage: DACVoltage, values[idx] at position idx+1                   *)

\* const ZERO: u32 = 0x80008000
ZERO == U32(\h8000, \h8000)

\* DACVoltage::new_with_size(size)
DACVoltage_new_with_size(size) == [i \in 1..size |-> ZERO]

\* the channel count DACVoltage::new asks for
DACVoltage_DEFAULT_SIZE == 4

\* DACVoltage::new
DACVoltage_new == DACVoltage_new_with_size(DACVoltage_DEFAULT_SIZE)

\* DACVoltage::len
DACVoltage_len(values) == Len(values)

\* values[idx] panics for idx >= len
DACVoltage_index_panics(values, idx) == idx >= Len(values)

\* mutant of DACVoltage_set_high: the previous word is not masked
DACVoltage_set_high_unmasked(values, idx, voltage) ==
    [values EXCEPT ![idx + 1] =
        U32(BitOr(voltage, values[idx + 1][1], 16), values[idx + 1][2])]

\* DACVoltage::set_high(idx, voltage):
\* values[idx] = (voltage as u32) << 16 | (values[idx] & 0xFFFF)
DACVoltage_set_high(values, idx, voltage) ==
    [values EXCEPT ![idx + 1] = U32(voltage, values[idx + 1][2])]

\* DACVoltage::get_high(idx): (values[idx] & 0xFFFF0000) >> 16
DACVoltage_get_high(values, idx) == values[idx + 1][1]

\* DACVoltage::set_low(idx, voltage): values[idx] |= voltage as u32
DACVoltage_set_low(values, idx, voltage) ==
    [values EXCEPT ![idx + 1] =
        U32(values[idx + 1][1], BitOr(values[idx + 1][2], voltage, 16))]

\* DACVoltage::get_low(idx): values[idx] & 0xFFFF
DACVoltage_get_low(values, idx) == values[idx + 1][2]

\* DACVoltage::set(idx, voltage): set_low then set_high
DACVoltage_set(values, idx, voltage) ==
    DACVoltage_set_high(DACVoltage_set_low(values, idx, voltage), idx, voltage)

\* DACVoltage::get(idx): (Vlow, Vhigh)
DACVoltage_get(values, idx) ==
    << DACVoltage_get_low(values, idx), DACVoltage_get_high(values, idx) >>

\* impl ToU32s for DACVoltage
DACVoltage_as_u32s(values) == values

---------------------------------------------------------------------------
(* u32mask: U32Mask<T>, the record [_words, bits]; _words is the WORDS of  *)
(* the type parameter T                                                    *)

Wx1_WORDS == 1
Wx2_WORDS == 2
Wx3_WORDS == 3
Wx4_WORDS == 4

\* U32Mask::<Wx1>::new
U32Mask_Wx1_new ==
    [_words |-> Wx1_WORDS, bits |-> BitVec_repeat(FALSE, Wx1_WORDS * 32)]

\* U32Mask::<Wx2>::new
U32Mask_Wx2_new ==
    [_words |-> Wx2_WORDS, bits |-> BitVec_repeat(FALSE, Wx2_WORDS * 32)]

\* U32Mask::<Wx3>::new, which returns a U32Mask<Wx1>
U32Mask_Wx3_new ==
    [_words |-> Wx1_WORDS, bits |-> BitVec_repeat(FALSE, Wx3_WORDS * 32)]

\* U32Mask::<Wx4>::new, which returns a U32Mask<Wx2>
U32Mask_Wx4_new ==
    [_words |-> Wx2_WORDS, bits |-> BitVec_repeat(FALSE, Wx4_WORDS * 32)]

\* ADCMask::new and IOMask::new: the aliases' own constructors
ADCMask_new == U32Mask_Wx2_new
IOMask_new  == U32Mask_Wx1_new

\* U32Mask::len
U32Mask_len(m) == Len(m.bits)

\* len-1-idx underflows or indexes out of range for idx >= len
U32Mask_index_panics(m, idx) == idx >= Len(m.bits)

\* mutant of U32Mask_set_enabled: bits.set(idx, status), the forward
\* mapping of ChannelConf
U32Mask_set_enabled_forward(m, idx, status) ==
    [m EXCEPT !.bits = BitVec_set(m.bits, idx, status)]

\* U32Mask::set_enabled(idx, status)
U32Mask_set_enabled(m, idx, status) ==
    LET len == Len(m.bits)
    IN  [m EXCEPT !.bits = BitVec_set(m.bits, len - 1 - idx, status)]

\* mutant of U32Mask_get_enabled: self.bits[idx], the forward index
U32Mask_get_enabled_forward(m, idx) ==
    m.bits[idx + 1]

\* U32Mask::get_enabled(idx)
U32Mask_get_enabled(m, idx) ==
    LET len == Len(m.bits)
    IN  m.bits[(len - 1 - idx) + 1]

RECURSIVE U32Mask_set_enabled_all_loop(_, _, _)
\* the loop of U32Mask::set_enabled_all from i on
U32Mask_set_enabled_all_loop(bits, status, i) ==
    IF i >= Len(bits) THEN bits
    ELSE U32Mask_set_enabled_all_loop(
            BitVec_set(bits, Len(bits) - 1 - i, status), status, i + 1)

\* U32Mask::set_enabled_all(status)
U32Mask_set_enabled_all(m, status) ==
    [m EXCEPT !.bits = U32Mask_set_enabled_all_loop(m.bits, status, 0)]

\* mutant of U32Mask_toggle: the negation is missing
U32Mask_toggle_same(m, idx) ==
    U32Mask_set_enabled(m, idx, U32Mask_get_enabled(m, idx))

\* U32Mask::toggle(idx)
U32Mask_toggle(m, idx) ==
    U32Mask_set_enabled(m, idx, ~U32Mask_get_enabled(m, idx))

\* impl ToU32s for U32Mask<T>
U32Mask_as_u32s(m) == BitVec_as_raw_slice(m.bits)

---------------------------------------------------------------------------
(* opcode, empty, terminate: registers of one constant word                *)

OpCode_SetDAC         == U32(\h0000, \h0001)
OpCode_UpdateDAC      == U32(\h0000, \h0002)
OpCode_CurrentRead    == U32(\h0000, \h0004)
OpCode_VoltageRead    == U32(\h0000, \h0008)
OpCode_UpdateSelector == U32(\h0000, \h0010)
OpCode_UpdateLogic    == U32(\h0000, \h0020)
OpCode_UpdateChannel  == U32(\h0000, \h0040)
OpCode_Clear          == U32(\h0000, \h0080)
OpCode_HSPulseConfig  == U32(\h0000, \h0100)
OpCode_HSPulseStart   == U32(\h0000, \h0200)
OpCode_ModifyChannel  == U32(\h0000, \h0400)
OpCode_SetDACOffset   == U32(\h0000, \h1000)

\* enum OpCode, each variant as its u32 representation
OpCode ==
    { OpCode_SetDAC, OpCode_UpdateDAC, OpCode_CurrentRead, OpCode_VoltageRead,
      OpCode_UpdateSelector, OpCode_UpdateLogic, OpCode_UpdateChannel,
      OpCode_Clear, OpCode_HSPulseConfig, OpCode_HSPulseStart,
      OpCode_ModifyChannel, OpCode_SetDACOffset }

\* impl ToU32s for OpCode: [*self as u32]
OpCode_as_u32s(self) == << self >>

\* Empty::new
Empty_new == U32(\h0000, \h0000)

\* impl ToU32s for Empty: [self.0]
Empty_as_u32s(self) == << self >>

\* Terminate::new
Terminate_new == U32(\h8000, \h8000)

\* impl ToU32s for Terminate: [self.0]
Terminate_as_u32s(self) == << self >>

---------------------------------------------------------------------------
(* The registers as state machines.  Each register type has its own       *)
(* specification; the registers share nothing, so in the specification    *)
(* of one type no register of the other types is constructed.             *)

\* the record of the last operation
Op(name, idx, val, panicked) ==
    [op |-> name, idx |-> idx, val |-> val, panic |-> panicked]

\* a small register whose 33 bits cross one word boundary
SmallChannels == 11

\* the channel count of an ArC2 register
TypicalChannels == 64

\* a channel count whose product with CHANSIZE overflows a usize:
\* 6148914691236517216, the product wraps to 32
WrappingChannels == USIZE_WIDE + 10

ChannelCounts == { SmallChannels, TypicalChannels, WrappingChannels }

\* the channels the set action is tried on: the first, the two that
\* straddle the first and second word boundary, the last, and one past the end
ChanConfIdx(n) == { i \in {0, 10, 21, n - 1} : 0 <= i /\ i < n } \cup { n }

\* indices whose product with CHANSIZE overflows a usize: the product of
\* the first wraps to bit 2, that of the second to the last bit of the
\* register
ChanConfWideIdx(n) == { USIZE_WIDE, USIZE_WIDE + n - 1 }

\* the states the set action writes: complementary bit patterns 001, 110
ChanConfSetVals == { ChannelState_Open, ChannelState_HiSpeed }

\* the states the set_all action writes: 100, 101
ChanConfSetAllVals == { ChannelState_VoltArb, ChannelState_CurArb }

\* no register of the type has been constructed
NoChannelConf == chanconf = << >> /\ chanconf_hist = << >> /\ channels = 0
NoDACVoltage  == dacvoltage = << >>
NoSourceConf  == sourceconf = << >>
NoDACMask     == dacmask = DACMask_NONE /\ dacmask_aux = << >>
NoU32Mask     == u32mask = [_words |-> 0, bits |-> << >>]
NoFixed       == fixed = [type |-> "none", word |-> << 0, 0 >>]
NoIter        == iter = [active |-> FALSE, index |-> 0]

\* a ChannelConf has been constructed: new has not panicked
HasChannelConf == chanconf # << >>

\* the index arithmetic of DACVoltage, SourceConf, DACMask and U32Mask does
\* the same in both builds (U32Mask's len - 1 - idx underflows to an index
\* past the end, which panics as the checked subtraction does), so one
\* build stands for both where no ChannelConf is constructed
OneBuild      == overflow_checks = FALSE

\* ChannelConf::new(channels) in either build; where new panics no
\* register exists and no method can be called
ChanConfInit ==
    /\ overflow_checks \in BOOLEAN
    /\ channels \in ChannelCounts
    /\ chanconf = IF ChannelConf_new(channels).panic THEN << >>
                  ELSE ChannelConf_new(channels).val
    /\ chanconf_hist = [i \in 1..ChannelConf_len(chanconf) |-> 0]
    /\ NoDACVoltage /\ NoSourceConf /\ NoDACMask /\ NoU32Mask /\ NoFixed
    /\ NoIter
    /\ last = Op("new", 0, 0, ChannelConf_new(channels).panic)

\* reg.set(idx, val): the register after the call, whether it panicked
\* (a panicking call may have written before it failed).  The channel
\* history records the calls on the channels of the register.  The wide
\* indices are tried with the one state HiSpeed.
ChanConfSet ==
    /\ HasChannelConf
    /\ \E idx \in ChanConfIdx(ChannelConf_len(chanconf))
                   \cup ChanConfWideIdx(ChannelConf_len(chanconf)),
       val \in ChanConfSetVals :
        /\ idx >= USIZE_WIDE => val = ChannelState_HiSpeed
        /\ chanconf' = ChannelConf_set(chanconf, idx, val)
        /\ chanconf_hist' = IF idx < ChannelConf_len(chanconf)
                            THEN [chanconf_hist EXCEPT ![idx + 1] = val]
                            ELSE chanconf_hist
        /\ last' = Op("set", 0, 0, ChannelConf_set_panics(chanconf, idx))
        /\ UNCHANGED <<dacvoltage, sourceconf, dacmask, dacmask_aux, u32mask, fixed, iter, overflow_checks, channels>>

\* reg.set_all(val)
ChanConfSetAll ==
    /\ HasChannelConf
    /\ \E val \in ChanConfSetAllVals :
        /\ chanconf' = ChannelConf_set_all(chanconf, val)
        /\ chanconf_hist' = [i \in DOMAIN chanconf_hist |-> val]
        /\ last' = Op("set_all", 0, 0, FALSE)
        /\ UNCHANGED <<dacvoltage, sourceconf, dacmask, dacmask_aux, u32mask, fixed, iter, overflow_checks, channels>>

ChanConfNext == ChanConfSet \/ ChanConfSetAll

SpecChannelConf == ChanConfInit /\ [][ChanConfNext]_vars

---------------------------------------------------------------------------
(* Claims about ChannelConf, checked under SpecChannelConf                 *)

CeilDiv(a, b) == (a + b - 1) \div b

\* the bit at position p of the concatenated words ws, position 0 being
\* the most significant bit of the first word
WordsBit(ws, p) == WordBitLsb(ws[(p \div 32) + 1], 31 - (p % 32))

\* the stored bits of every channel of the register but i
OtherCodes(bits, i) ==
    [j \in (0..(ChannelConf_len(bits) - 1)) \ {i} |->
        SubSeq(bits, CHANSIZE * j + 1, CHANSIZE * (j + 1))]

\* C1: as_u32s returns ceil(3N/32) words; the three bits at positions 3i,
\* 3i+1, 3i+2 of the concatenated words hold, most significant bit first,
\* the code of the state channel i was last set to, across word boundaries
\* too; 64 channels all set to VoltArb serialise to the six documented words.
C1_ChannelConfPacking ==
    LET ws == ChannelConf_as_u32s(chanconf)
        n  == ChannelConf_len(chanconf)
    IN  /\ Len(ws) = CeilDiv(3 * n, 32)
        /\ \A i \in 0..(n - 1) :
              chanconf_hist[i + 1] # 0 =>
                 \A k \in 0..2 :
                    WordsBit(ws, 3 * i + k) = BitOf(chanconf_hist[i + 1], 2 - k)
        /\ (n = 64 /\ \A i \in 1..n : chanconf_hist[i] = ChannelState_VoltArb)
              => ws = << U32(\h9249, \h2492), U32(\h4924, \h9249),
                         U32(\h2492, \h4924), U32(\h9249, \h2492),
                         U32(\h4924, \h9249), U32(\h2492, \h4924) >>

\* the indices C2 is tried on: every channel the register holds, the
\* first index past them and the first wide index
C2Idx == (0..ChannelConf_len(chanconf)) \cup { USIZE_WIDE }

\* C2: from any reachable register made by new(N), for every index i < N
\* and each of the six states s, set(i, s) does not panic, makes get(i)
\* return s and leaves the stored code of every other channel as it was.
C2_SetThenGet ==
    HasChannelConf =>
       \A i \in C2Idx, s \in ChannelState :
          i < channels =>
             /\ ~ChannelConf_set_panics(chanconf, i)
             /\ ChannelConf_get(ChannelConf_set(chanconf, i, s), i) = Ok(s)
             /\ OtherCodes(ChannelConf_set(chanconf, i, s), i)
                   = OtherCodes(chanconf, i)

---------------------------------------------------------------------------
(* DACVoltage as a state machine                                           *)

\* the voltage codes the setters are called with: the documented 0x8534 and
\* 0xA0A0, and a code below the default 0x8000
DacVoltages == { \h0001, \h8534, \hA0A0 }

\* the voltage codes the claims are evaluated on
DacProbeVoltages == DacVoltages \cup { \h0000, \h7FFF, \h8000, \h90F3, \hFFFF }

\* the channels the setters are called on; the last is one past the end
DacIdx == { 1, 3, DACVoltage_DEFAULT_SIZE }

DacInit ==
    /\ dacvoltage = DACVoltage_new
    /\ NoChannelConf /\ NoSourceConf /\ NoDACMask /\ NoU32Mask /\ NoFixed
    /\ NoIter /\ OneBuild
    /\ last = Op("new", 0, 0, FALSE)

\* reg.set_high(idx, voltage)
DacSetHigh ==
    \E idx \in DacIdx, voltage \in DacVoltages :
        /\ dacvoltage' = IF DACVoltage_index_panics(dacvoltage, idx)
                         THEN dacvoltage
                         ELSE DACVoltage_set_high(dacvoltage, idx, voltage)
        /\ last' = Op("set_high", idx, voltage,
                      DACVoltage_index_panics(dacvoltage, idx))
        /\ UNCHANGED <<chanconf, chanconf_hist, sourceconf, dacmask, dacmask_aux, u32mask, fixed, iter, overflow_checks, channels>>

\* reg.set_low(idx, voltage)
DacSetLow ==
    \E idx \in DacIdx, voltage \in DacVoltages :
        /\ dacvoltage' = IF DACVoltage_index_panics(dacvoltage, idx)
                         THEN dacvoltage
                         ELSE DACVoltage_set_low(dacvoltage, idx, voltage)
        /\ last' = Op("set_low", idx, voltage,
                      DACVoltage_index_panics(dacvoltage, idx))
        /\ UNCHANGED <<chanconf, chanconf_hist, sourceconf, dacmask, dacmask_aux, u32mask, fixed, iter, overflow_checks, channels>>

\* reg.set(idx, voltage)
DacSet ==
    \E idx \in DacIdx, voltage \in DacVoltages :
        /\ dacvoltage' = IF DACVoltage_index_panics(dacvoltage, idx)
                         THEN dacvoltage
                         ELSE DACVoltage_set(dacvoltage, idx, voltage)
        /\ last' = Op("set", idx, voltage,
                      DACVoltage_index_panics(dacvoltage, idx))
        /\ UNCHANGED <<chanconf, chanconf_hist, sourceconf, dacmask, dacmask_aux, u32mask, fixed, iter, overflow_checks, channels>>

DacNext == DacSetHigh \/ DacSetLow \/ DacSet

SpecDACVoltage == DacInit /\ [][DacNext]_vars

---------------------------------------------------------------------------
(* Claims about DACVoltage, checked under SpecDACVoltage                   *)

\* C3 as claimed: after set(idx, v), get(idx) is (v, v) and word idx of
\* as_u32s is v * 2^16 + v.  The code ORs v into the previous Vlow
\* (see C4), so this fails whenever the previous Vlow has a bit v lacks.
C3_SetBothAsClaimed ==
    (last.op = "set" /\ ~last.panic) =>
        /\ DACVoltage_get(dacvoltage, last.idx) = << last.val, last.val >>
        /\ DACVoltage_as_u32s(dacvoltage)[last.idx + 1] = U32(last.val, last.val)

\* C4 as claimed: after set_low(idx, v), get_low(idx) is v and the lower
\* half of word idx is v.  The code computes values[idx] |= v.
C4_SetLowAsClaimed ==
    (last.op = "set_low" /\ ~last.panic) =>
        /\ DACVoltage_get_low(dacvoltage, last.idx) = last.val
        /\ DACVoltage_as_u32s(dacvoltage)[last.idx + 1][2] = last.val

\* C5: from any reachable register, for every channel idx and voltage v,
\* set_high(idx, v) makes get_high(idx) return v, keeps get_low(idx), makes
\* word idx equal v * 2^16 + the previous Vlow and keeps every other word;
\* on a new register set_high(3, 0xA0A0) gives the word 0xA0A08000.
C5_SetHigh ==
    /\ \A idx \in 0..(DACVoltage_len(dacvoltage) - 1), v \in DacProbeVoltages :
          LET after == DACVoltage_set_high(dacvoltage, idx, v)
          IN  /\ ~DACVoltage_index_panics(dacvoltage, idx)
              /\ DACVoltage_get_high(after, idx) = v
              /\ DACVoltage_get_low(after, idx)
                    = DACVoltage_get_low(dacvoltage, idx)
              /\ DACVoltage_as_u32s(after)[idx + 1]
                    = U32(v, DACVoltage_get_low(dacvoltage, idx))
              /\ \A j \in 0..(DACVoltage_len(dacvoltage) - 1) :
                    j # idx => DACVoltage_as_u32s(after)[j + 1]
                                  = DACVoltage_as_u32s(dacvoltage)[j + 1]
    /\ (last.op = "set_high" /\ ~last.panic) =>
          DACVoltage_get_high(dacvoltage, last.idx) = last.val
    /\ dacvoltage = DACVoltage_new =>
          DACVoltage_as_u32s(DACVoltage_set_high(dacvoltage, 3, \hA0A0))[4]
             = U32(\hA0A0, \h8000)

\* C5 witness: set_high(3, 0xA0A0) has acted on a channel whose Vlow had
\* been changed from its default
C5_Witness ==
    /\ last = Op("set_high", 3, \hA0A0, FALSE)
    /\ DACVoltage_get_high(dacvoltage, 3) = \hA0A0
    /\ DACVoltage_get_low(dacvoltage, 3) # \h8000
    /\ DACVoltage_get_high(dacvoltage, 1) # \h8000

---------------------------------------------------------------------------
(* SourceConf as a state machine                                           *)

\* the values set_digipot is called with, on both sides of the clamp
DigipotArgs ==
    { \h0000, \h0001, \h00FF, \h0155, \h01CD, \h0200, \h02AA, \h02FF, \h0300,
      \h0301, \h03FF, \h0400, \h0401, \h07FF, \h0800, \h8000, \hFFFF }

\* the values the claims are evaluated on: every value up to 0x0420, and
\* the larger arguments
DigipotProbe == 0..1056 \cup DigipotArgs

SrcInit ==
    /\ sourceconf = SourceConf_new
    /\ NoChannelConf /\ NoDACVoltage /\ NoDACMask /\ NoU32Mask /\ NoFixed
    /\ NoIter /\ OneBuild
    /\ last = Op("new", 0, 0, FALSE)

\* reg.set_digipot(val)
SrcSetDigipot ==
    \E val \in DigipotArgs :
        /\ sourceconf' = SourceConf_set_digipot(sourceconf, val)
        /\ last' = Op("set_digipot", 0, val, FALSE)
        /\ UNCHANGED <<chanconf, chanconf_hist, dacvoltage, dacmask, dacmask_aux, u32mask, fixed, iter, overflow_checks, channels>>

\* reg.set_cursource_state(val)
SrcSetCursourceState ==
    \E val \in CurrentSourceState :
        /\ sourceconf' = SourceConf_set_cursource_state(sourceconf, val)
        /\ last' = Op("set_cursource_state", 0, val, FALSE)
        /\ UNCHANGED <<chanconf, chanconf_hist, dacvoltage, dacmask, dacmask_aux, u32mask, fixed, iter, overflow_checks, channels>>

SrcNext == SrcSetDigipot \/ SrcSetCursourceState

SpecSourceConf == SrcInit /\ [][SrcNext]_vars

---------------------------------------------------------------------------
(* Claims about SourceConf, checked under SpecSourceConf                   *)

Clamped(v) == IF v > \h300 THEN \h300 ELSE v

\* C6: get_digipot() never exceeds 0x300; from any reachable register
\* set_digipot(v) makes get_digipot() return v for v <= 0x300 and 0x300
\* above; a new register reads 0x1CD.
C6_DigipotClamp ==
    /\ SourceConf_get_digipot(sourceconf) <= \h300
    /\ \A v \in DigipotProbe :
          SourceConf_get_digipot(SourceConf_set_digipot(sourceconf, v))
             = Clamped(v)
    /\ last.op = "set_digipot" =>
          SourceConf_get_digipot(sourceconf) = Clamped(last.val)
    /\ last.op = "new" => SourceConf_get_digipot(sourceconf) = \h1CD

\* C6 witness: set_digipot(0x400) has acted, after a current-source state
\* was set, and the register reads 0x300
C6_Witness ==
    /\ last = Op("set_digipot", 0, \h0400, FALSE)
    /\ SourceConf_get_digipot(sourceconf) = \h300
    /\ SourceConf_get_cursource_state(sourceconf)
          = Ok(CurrentSourceState_HiSpeed)

\* C7: as_u32s is the one word digipot * 2^22 + state code: its upper half
\* is digipot * 2^6, its lower half the code 0..3, all bits between the
\* fields zero; from new, set_digipot(0x200) gives 0x80000000 and then
\* set_cursource_state(HiSpeed) gives 0x80000003.
C7_SourceConfWord ==
    LET ws == SourceConf_as_u32s(sourceconf)
    IN  /\ Len(ws) = 1
        /\ ws[1][1] = SourceConf_get_digipot(sourceconf) * Pow2(6)
        /\ Ok(ws[1][2]) = SourceConf_get_cursource_state(sourceconf)
        /\ ws[1][2] \in CurrentSourceState
        /\ last.op = "set_digipot" => ws[1][1] = Clamped(last.val) * Pow2(6)
        /\ last.op = "set_cursource_state" => ws[1][2] = last.val
        /\ last.op = "new" => ws[1] = U32(\h1CD * Pow2(6), 0)
        /\ sourceconf = SourceConf_new =>
              /\ SourceConf_as_u32s(SourceConf_set_digipot(sourceconf, \h200))
                    = << U32(\h8000, \h0000) >>
              /\ SourceConf_as_u32s(
                    SourceConf_set_cursource_state(
                       SourceConf_set_digipot(sourceconf, \h200),
                       CurrentSourceState_HiSpeed))
                    = << U32(\h8000, \h0003) >>

\* C7 witness: set_digipot(0x200) then set_cursource_state(HiSpeed) have
\* acted and the register serialises to 0x80000003
C7_Witness ==
    /\ last = Op("set_cursource_state", 0, CurrentSourceState_HiSpeed, FALSE)
    /\ SourceConf_as_u32s(sourceconf) = << U32(\h8000, \h0003) >>

---------------------------------------------------------------------------
(* DACMask as a state machine                                              *)

\* the masks a caller starts from
MaskStarts == { DACMask_NONE, DACMask_ALL }

\* the channels the single-channel calls are tried on; 64 is out of range
MaskChans == { 2, 3, 12, 50, 61, 63, 64 }

\* the channel lists the list calls are tried on; the last has a channel
\* out of range in the middle
MaskLists == { << >>, << 2, 3, 50, 61 >>, << 12, 61 >>, << 3, 64, 12 >> }

\* the flags set and removed through the raw flag API
MaskRawFlags == { DACMask_AUX0, DACMask_AUX1 }

\* the AUX0 and AUX1 bits of the serialised mask
AuxBits(bits) ==
    << WordBitLsb(DACMask_as_u32(bits), 16),
       WordBitLsb(DACMask_as_u32(bits), 17) >>

MaskInit ==
    /\ dacmask \in MaskStarts
    /\ dacmask_aux = AuxBits(dacmask)
    /\ NoChannelConf /\ NoDACVoltage /\ NoSourceConf /\ NoU32Mask /\ NoFixed
    /\ NoIter /\ OneBuild
    /\ last = Op("new", 0, 0, FALSE)

MaskOthersUnchanged ==
    UNCHANGED <<chanconf, chanconf_hist, dacvoltage, sourceconf, u32mask, fixed, iter, overflow_checks, channels>>

\* mask.set_channel(chan)
MaskSetChannel ==
    \E chan \in MaskChans :
        /\ dacmask' = DACMask_set_channel(dacmask, chan).val
        /\ last' = Op("set_channel", 0, chan,
                      DACMask_set_channel(dacmask, chan).panic)
        /\ UNCHANGED dacmask_aux
        /\ MaskOthersUnchanged

\* mask.unset_channel(chan)
MaskUnsetChannel ==
    \E chan \in MaskChans :
        /\ dacmask' = DACMask_unset_channel(dacmask, chan).val
        /\ last' = Op("unset_channel", 0, chan,
                      DACMask_unset_channel(dacmask, chan).panic)
        /\ UNCHANGED dacmask_aux
        /\ MaskOthersUnchanged

\* mask.set_channels(chans)
MaskSetChannels ==
    \E chans \in MaskLists :
        /\ dacmask' = DACMask_set_channels(dacmask, chans).val
        /\ last' = Op("set_channels", 0, chans,
                      DACMask_set_channels(dacmask, chans).panic)
        /\ UNCHANGED dacmask_aux
        /\ MaskOthersUnchanged

\* mask.unset_channels(chans)
MaskUnsetChannels ==
    \E chans \in MaskLists :
        /\ dacmask' = DACMask_unset_channels(dacmask, chans).val
        /\ last' = Op("unset_channels", 0, chans,
                      DACMask_unset_channels(dacmask, chans).panic)
        /\ UNCHANGED dacmask_aux
        /\ MaskOthersUnchanged

\* mask.clear()
MaskClear ==
    /\ dacmask' = DACMask_clear(dacmask)
    /\ dacmask_aux' = AuxBits(dacmask')
    /\ last' = Op("clear", 0, 0, FALSE)
    /\ MaskOthersUnchanged

\* mask.insert(flag), the raw flag API
MaskInsert ==
    \E flag \in MaskRawFlags :
        /\ dacmask' = DACMask_insert(dacmask, flag)
        /\ dacmask_aux' = AuxBits(dacmask')
        /\ last' = Op("insert", 0, flag, FALSE)
        /\ MaskOthersUnchanged

\* mask.remove(flag), the raw flag API
MaskRemove ==
    \E flag \in MaskRawFlags :
        /\ dacmask' = DACMask_remove(dacmask, flag)
        /\ dacmask_aux' = AuxBits(dacmask')
        /\ last' = Op("remove", 0, flag, FALSE)
        /\ MaskOthersUnchanged

MaskNext ==
    \/ MaskSetChannel \/ MaskUnsetChannel
    \/ MaskSetChannels \/ MaskUnsetChannels
    \/ MaskClear \/ MaskInsert \/ MaskRemove

SpecDACMask == MaskInit /\ [][MaskNext]_vars

---------------------------------------------------------------------------
(* Claims about DACMask, checked under SpecDACMask                         *)

\* the mask with the flag of value 2^k set, every other flag as in bits
WithFlag(bits, k) ==
    IF BitOf(bits, k) = 1 THEN bits ELSE bits + Pow2(k)

\* the mask with the flag of value 2^k cleared, every other flag as in bits
WithoutFlag(bits, k) ==
    IF BitOf(bits, k) = 1 THEN bits - Pow2(k) ELSE bits

\* C8: from any reachable mask, for every channel c in 0..63, set_channel(c)
\* sets exactly the flag of value 2^(c div 4) and unset_channel(c) clears
\* exactly that flag, all 17 other flag bits unchanged; from NONE,
\* set_channels([2,3,50,61]) serialises to 0x00009001, then set_channel(12)
\* to 0x00009009, then unset_channel(61) to 0x00001009, then clear() to 0.
C8_ChannelToHalf ==
    /\ \A c \in 0..63 :
          /\ DACMask_set_channel(dacmask, c)
                = [panic |-> FALSE, val |-> WithFlag(dacmask, c \div 4)]
          /\ DACMask_unset_channel(dacmask, c)
                = [panic |-> FALSE, val |-> WithoutFlag(dacmask, c \div 4)]
    /\ (last.op = "set_channel" /\ ~last.panic) =>
          BitOf(dacmask, last.val \div 4) = 1
    /\ (last.op = "unset_channel" /\ ~last.panic) =>
          BitOf(dacmask, last.val \div 4) = 0
    /\ dacmask = DACMask_NONE =>
          LET m1 == DACMask_set_channels(dacmask, << 2, 3, 50, 61 >>).val
              m2 == DACMask_set_channel(m1, 12).val
              m3 == DACMask_unset_channel(m2, 61).val
          IN  /\ DACMask_as_u32s(m1) = << U32(\h0000, \h9001) >>
              /\ DACMask_as_u32s(m2) = << U32(\h0000, \h9009) >>
              /\ DACMask_as_u32s(m3) = << U32(\h0000, \h1009) >>
              /\ DACMask_as_u32s(DACMask_clear(m3)) = << U32(\h0000, \h0000) >>

\* C8 witness: unset_channel(61) has acted and left 0x00001009, as in the
\* documented sequence
C8_Witness ==
    /\ last.op = "unset_channel" /\ last.val = 61 /\ ~last.panic
    /\ DACMask_as_u32s(dacmask) = << U32(\h0000, \h1009) >>

\* C9: no sequence of set_channel, unset_channel, set_channels and
\* unset_channels calls changes the AUX0 and AUX1 bits of the serialised
\* word: they stay as the start or the raw flag API left them, and no
\* single channel call with a channel in 0..63 changes them.
C9_AuxUntouched ==
    /\ AuxBits(dacmask) = dacmask_aux
    /\ \A c \in 0..63 :
          /\ AuxBits(DACMask_set_channel(dacmask, c).val) = AuxBits(dacmask)
          /\ AuxBits(DACMask_unset_channel(dacmask, c).val) = AuxBits(dacmask)
    /\ \A chans \in MaskLists :
          /\ AuxBits(DACMask_set_channels(dacmask, chans).val)
                = AuxBits(dacmask)
          /\ AuxBits(DACMask_unset_channels(dacmask, chans).val)
                = AuxBits(dacmask)

\* C9 witness: with both auxiliary flags set, unset_channels has acted
C9_Witness ==
    /\ last.op = "unset_channels" /\ last.val = << 2, 3, 50, 61 >>
    /\ ~last.panic
    /\ dacmask_aux = << 1, 1 >>
    /\ BitOf(dacmask, 3) = 1

---------------------------------------------------------------------------
(* U32Mask as a state machine                                              *)

\* the channels the calls are tried on: the ends of the last word, a
\* channel of the word before it, the last channel, and one past the end
U32MaskIdx(len) == { i \in { 0, 31, 62, len - 1 } : i < len } \cup { len }

U32MaskInit ==
    /\ u32mask \in { U32Mask_Wx1_new, U32Mask_Wx2_new,
                     U32Mask_Wx3_new, U32Mask_Wx4_new }
    /\ NoChannelConf /\ NoDACVoltage /\ NoSourceConf /\ NoDACMask /\ NoFixed
    /\ NoIter /\ OneBuild
    /\ last = Op("new", 0, 0, FALSE)

U32MaskOthersUnchanged ==
    UNCHANGED <<chanconf, chanconf_hist, dacvoltage, sourceconf, dacmask, dacmask_aux, fixed, iter, overflow_checks, channels>>

\* mask.set_enabled(idx, status)
U32MaskSetEnabled ==
    \E idx \in U32MaskIdx(U32Mask_len(u32mask)), status \in BOOLEAN :
        /\ u32mask' = IF U32Mask_index_panics(u32mask, idx)
                      THEN u32mask
                      ELSE U32Mask_set_enabled(u32mask, idx, status)
        /\ last' = Op("set_enabled", idx, status,
                      U32Mask_index_panics(u32mask, idx))
        /\ U32MaskOthersUnchanged

\* mask.set_enabled_all(status)
U32MaskSetEnabledAll ==
    \E status \in BOOLEAN :
        /\ u32mask' = U32Mask_set_enabled_all(u32mask, status)
        /\ last' = Op("set_enabled_all", 0, status, FALSE)
        /\ U32MaskOthersUnchanged

\* mask.toggle(idx); get_enabled panics first for idx >= len
U32MaskToggle ==
    \E idx \in U32MaskIdx(U32Mask_len(u32mask)) :
        /\ u32mask' = IF U32Mask_index_panics(u32mask, idx)
                      THEN u32mask
                      ELSE U32Mask_toggle(u32mask, idx)
        /\ last' = Op("toggle", idx, 0, U32Mask_index_panics(u32mask, idx))
        /\ U32MaskOthersUnchanged

U32MaskNext == U32MaskSetEnabled \/ U32MaskSetEnabledAll \/ U32MaskToggle

SpecU32Mask == U32MaskInit /\ [][U32MaskNext]_vars

---------------------------------------------------------------------------
(* Claims about U32Mask, checked under SpecU32Mask                         *)

BoolBit(b) == IF b THEN 1 ELSE 0

\* C10: a mask of W*32 channels serialises to W words, and channel i is
\* enabled exactly when bit (i mod 32), counted from the least significant
\* bit, of word W-1-(i div 32) is 1; {0, 31, 62} enabled on a new ADCMask
\* gives [0x40000000, 0x80000001], {0, 31} on a new IOMask [0x80000001].
C10_MaskLayout ==
    LET ws == U32Mask_as_u32s(u32mask)
        W  == Len(U32Mask_as_u32s(u32mask))
    IN  /\ W * 32 = U32Mask_len(u32mask)
        /\ \A i \in 0..(U32Mask_len(u32mask) - 1) :
              BoolBit(U32Mask_get_enabled(u32mask, i))
                 = WordBitLsb(ws[(W - 1 - (i \div 32)) + 1], i % 32)
        /\ (last.op = "set_enabled" /\ ~last.panic) =>
              WordBitLsb(ws[(W - 1 - (last.idx \div 32)) + 1], last.idx % 32)
                 = BoolBit(last.val)
        /\ u32mask = ADCMask_new =>
              U32Mask_as_u32s(
                 U32Mask_set_enabled(
                    U32Mask_set_enabled(
                       U32Mask_set_enabled(u32mask, 31, TRUE), 0, TRUE),
                    62, TRUE))
                 = << U32(\h4000, \h0000), U32(\h8000, \h0001) >>
        /\ u32mask = IOMask_new =>
              U32Mask_as_u32s(
                 U32Mask_set_enabled(
                    U32Mask_set_enabled(u32mask, 31, TRUE), 0, TRUE))
                 = << U32(\h8000, \h0001) >>

\* C10 witness: channels 31, 0 and 62 of an ADCMask::new() have been
\* enabled, 62 last
C10_Witness ==
    /\ last.op = "set_enabled" /\ last.idx = 62 /\ last.val = TRUE
    /\ u32mask._words = Wx2_WORDS
    /\ U32Mask_as_u32s(u32mask)
          = << U32(\h4000, \h0000), U32(\h8000, \h0001) >>


\* the masks the four constructors return
U32MaskNew == { U32Mask_Wx1_new, U32Mask_Wx2_new,
                U32Mask_Wx3_new, U32Mask_Wx4_new }

\* get_enabled(j) of every channel j of the mask
EnabledChannels(m) ==
    [j \in 0..(U32Mask_len(m) - 1) |-> U32Mask_get_enabled(m, j)]

\* C11: from any reachable mask, for every channel i < len() and boolean b,
\* set_enabled(i, b) succeeds, makes get_enabled(i) return b and leaves
\* get_enabled(j) as it was for every other channel j; every channel of a
\* new mask reads as disabled.
C11_SetEnabledThenGet ==
    /\ LET before == EnabledChannels(u32mask)
       IN  \A i \in 0..(U32Mask_len(u32mask) - 1), b \in BOOLEAN :
              /\ ~U32Mask_index_panics(u32mask, i)
              /\ EnabledChannels(U32Mask_set_enabled(u32mask, i, b))
                    = [before EXCEPT ![i] = b]
    /\ (last.op = "set_enabled" /\ ~last.panic)
          => U32Mask_get_enabled(u32mask, last.idx) = last.val
    /\ last.op = "new"
          => \A i \in 0..(U32Mask_len(u32mask) - 1) :
                U32Mask_get_enabled(u32mask, i) = FALSE

\* C11 witness: set_enabled(31, false) has acted on a 64-channel mask in
\* which channels 0 and 62 stay enabled
C11_Witness ==
    /\ last.op = "set_enabled" /\ ~last.panic
    /\ last.idx = 31 /\ last.val = FALSE
    /\ U32Mask_len(u32mask) = 64
    /\ U32Mask_get_enabled(u32mask, 0)
    /\ U32Mask_get_enabled(u32mask, 62)
    /\ ~U32Mask_get_enabled(u32mask, 31)


\* C12: from any reachable mask, for every channel i < len(), toggle(i)
\* inverts get_enabled(i) and leaves every other channel as it was, and a
\* second toggle(i) restores the serialised words; on a 64-channel mask
\* that serialises to [0x40000000, 0x80000001] (channels 0, 31, 62 enabled)
\* toggle(31) disables channel 31 and gives [0x40000000, 0x00000001].
C12_Toggle ==
    /\ LET before == EnabledChannels(u32mask)
           words  == U32Mask_as_u32s(u32mask)
       IN  \A i \in 0..(U32Mask_len(u32mask) - 1) :
              /\ EnabledChannels(U32Mask_toggle(u32mask, i))
                    = [before EXCEPT ![i] = ~before[i]]
              /\ U32Mask_as_u32s(U32Mask_toggle(U32Mask_toggle(u32mask, i), i))
                    = words
    /\ (/\ U32Mask_len(u32mask) = 64
        /\ U32Mask_as_u32s(u32mask)
              = << U32(\h4000, \h0000), U32(\h8000, \h0001) >>)
          => /\ ~U32Mask_get_enabled(U32Mask_toggle(u32mask, 31), 31)
             /\ U32Mask_as_u32s(U32Mask_toggle(u32mask, 31))
                   = << U32(\h4000, \h0000), U32(\h0000, \h0001) >>

\* C12 witness: toggle(31) has acted on the ADCMask with channels 0, 31
\* and 62 enabled
C12_Witness ==
    /\ last.op = "toggle" /\ ~last.panic /\ last.idx = 31
    /\ u32mask._words = Wx2_WORDS /\ U32Mask_len(u32mask) = 64
    /\ U32Mask_as_u32s(u32mask)
          = << U32(\h4000, \h0000), U32(\h0000, \h0001) >>


\* C13 as claimed: every mask of the W-word type has len() = W * 32 and
\* serialises to W words, whichever constructor produced it.  The
\* constructors of the 3-word and 4-word specialisations return masks of
\* the 1-word and 2-word types holding 96 and 128 channels.
C13_WordCountAsClaimed ==
    /\ U32Mask_len(u32mask) = u32mask._words * 32
    /\ Len(U32Mask_as_u32s(u32mask)) = u32mask._words


---------------------------------------------------------------------------
(* Serialisation of every register type: the state machines above joined, *)
(* with the call of as_u32s as an action of its own                        *)

\* which register has been constructed
HasDACVoltage  == dacvoltage # << >>
HasSourceConf  == sourceconf # << >>
HasDACMask     == dacmask_aux # << >>
HasU32Mask     == u32mask.bits # << >>
HasFixed       == fixed.type # "none"

\* an OpCode variant, Empty::new() or Terminate::new()
FixedInit ==
    /\ fixed \in [type : {"OpCode"}, word : OpCode]
                 \cup { [type |-> "Empty", word |-> Empty_new],
                        [type |-> "Terminate", word |-> Terminate_new] }
    /\ NoChannelConf /\ NoDACVoltage /\ NoSourceConf /\ NoDACMask /\ NoU32Mask
    /\ NoIter /\ OneBuild
    /\ last = Op("new", 0, 0, FALSE)

RegistersInit ==
    \/ ChanConfInit
    \/ DacInit
    \/ SrcInit
    \/ MaskInit
    \/ U32MaskInit
    \/ FixedInit

\* register.as_u32s() of the constructed register
RegisterWords ==
    CASE HasChannelConf -> ChannelConf_as_u32s(chanconf)
      [] HasDACVoltage  -> DACVoltage_as_u32s(dacvoltage)
      [] HasSourceConf  -> SourceConf_as_u32s(sourceconf)
      [] HasDACMask     -> DACMask_as_u32s(dacmask)
      [] HasU32Mask     -> U32Mask_as_u32s(u32mask)
      [] fixed.type = "OpCode"    -> OpCode_as_u32s(fixed.word)
      [] fixed.type = "Empty"     -> Empty_as_u32s(fixed.word)
      [] fixed.type = "Terminate" -> Terminate_as_u32s(fixed.word)

\* as_u32s takes &self: no register is written
AsU32s ==
    /\ \/ HasChannelConf \/ HasDACVoltage \/ HasSourceConf
       \/ HasDACMask \/ HasU32Mask \/ HasFixed
    /\ last' = Op("as_u32s", 0, RegisterWords, FALSE)
    /\ UNCHANGED << chanconf, chanconf_hist, dacvoltage, sourceconf, dacmask,
                    dacmask_aux, u32mask, fixed, iter, overflow_checks, channels >>

RegistersNext ==
    \/ HasChannelConf /\ ChanConfNext
    \/ HasDACVoltage /\ DacNext
    \/ HasSourceConf /\ SrcNext
    \/ HasDACMask /\ MaskNext
    \/ HasU32Mask /\ U32MaskNext
    \/ AsU32s

SpecRegisters == RegistersInit /\ [][RegistersNext]_vars

---------------------------------------------------------------------------
(* Further claims about ChannelConf, checked under SpecChannelConf         *)

\* the 3-bit code of channel i in the serialised words ws
WordsCode(ws, i) ==
    4 * WordsBit(ws, 3 * i) + 2 * WordsBit(ws, 3 * i + 1)
       + WordsBit(ws, 3 * i + 2)

\* C15: in every state reachable through new(N), set and set_all, no
\* channel holds the code 7 in the serialised words, and every channel
\* that set or set_all has written holds one of the codes 1..6.
C15_NoInvalidCodeProduced ==
    \A i \in 0..(ChannelConf_len(chanconf) - 1) :
        LET code == WordsCode(ChannelConf_as_u32s(chanconf), i)
        IN  /\ code # 7
            /\ chanconf_hist[i + 1] # 0 => code \in 1..6


---------------------------------------------------------------------------
(* Claims about every register type, checked under SpecRegisters           *)

\* indices at and beyond a channel count
OutOfRange(len) == { len, len + 1, len + 64 }

\* the operations that take a channel index
IndexedOps ==
    { "set", "set_high", "set_low", "set_enabled", "toggle",
      "set_channel", "unset_channel" }

\* every call with an index at or beyond the channel count panics
OutOfRangePanics ==
    /\ HasChannelConf =>
          \A idx \in OutOfRange(ChannelConf_len(chanconf))
                        \cup ChanConfWideIdx(ChannelConf_len(chanconf)) :
             /\ ChannelConf_set_panics(chanconf, idx)
             /\ \A val \in ChanConfSetVals :
                   ChannelConf_set(chanconf, idx, val) = chanconf
             /\ ChannelConf_get(chanconf, idx) = Panic
    /\ HasDACVoltage =>
          \A idx \in OutOfRange(DACVoltage_len(dacvoltage)) :
             DACVoltage_index_panics(dacvoltage, idx)
    /\ HasU32Mask =>
          \A idx \in OutOfRange(U32Mask_len(u32mask)) :
             U32Mask_index_panics(u32mask, idx)
    /\ HasDACMask =>
          \A chan \in OutOfRange(Len(CHANMAP)) :
             /\ DACMask_set_channel(dacmask, chan)
                   = [panic |-> TRUE, val |-> dacmask]
             /\ DACMask_unset_channel(dacmask, chan)
                   = [panic |-> TRUE, val |-> dacmask]

\* a call on an index out of range has panicked, and a call that has
\* panicked has left the register and its words as they were
OutOfRangeStep ==
    last'.op \in IndexedOps =>
        /\ (HasDACVoltage /\ last'.idx >= DACVoltage_len(dacvoltage))
              => last'.panic
        /\ (HasU32Mask /\ last'.idx >= U32Mask_len(u32mask))
              => last'.panic
        /\ (HasDACMask /\ last'.val >= Len(CHANMAP)) => last'.panic
        /\ last'.panic =>
              /\ << chanconf', dacvoltage', sourceconf', dacmask', u32mask' >>
                    = << chanconf, dacvoltage, sourceconf, dacmask, u32mask >>
              /\ RegisterWords' = RegisterWords

\* C16: for ChannelConf set/get, the DACVoltage setters and getters and
\* the boolean masks' set_enabled/get_enabled/toggle with idx >= len(),
\* and for DACMask set_channel/unset_channel with a channel >= 64, the
\* call panics, and the register serialises to the same words as before
\* the call.
C16_OutOfRangeFailsFast ==
    []OutOfRangePanics /\ [][OutOfRangeStep]_vars


---------------------------------------------------------------------------
(* A further claim about SourceConf, checked under SpecSourceConf          *)

\* the two sub-fields do not disturb each other, and the state reads back
SourceConfIndependent ==
    /\ ~SourceConf_get_cursource_state(sourceconf).panic
    /\ \A v \in DigipotProbe :
          SourceConf_get_cursource_state(SourceConf_set_digipot(sourceconf, v))
             = SourceConf_get_cursource_state(sourceconf)
    /\ \A s \in CurrentSourceState :
          /\ SourceConf_get_digipot(SourceConf_set_cursource_state(sourceconf, s))
                = SourceConf_get_digipot(sourceconf)
          /\ SourceConf_get_cursource_state(
                SourceConf_set_cursource_state(sourceconf, s)) = Ok(s)
    /\ last.op = "new" =>
          SourceConf_get_cursource_state(sourceconf)
             = Ok(CurrentSourceState_Maintain)
    /\ last.op = "set_cursource_state" =>
          SourceConf_get_cursource_state(sourceconf) = Ok(last.val)

\* a set_digipot call keeps the state, a set_cursource_state call the digipot
SourceConfStep ==
    /\ last'.op = "set_digipot" =>
          SourceConf_get_cursource_state(sourceconf')
             = SourceConf_get_cursource_state(sourceconf)
    /\ last'.op = "set_cursource_state" =>
          SourceConf_get_digipot(sourceconf')
             = SourceConf_get_digipot(sourceconf)

\* C17: set_digipot(v) leaves get_cursource_state() unchanged and
\* set_cursource_state(s) leaves get_digipot() unchanged;
\* get_cursource_state() never panics and returns Maintain after new() and
\* the state passed after set_cursource_state, which set_digipot calls
\* keep: the state most recently set, or Maintain.
C17_SubFieldsIndependent ==
    []SourceConfIndependent /\ [][SourceConfStep]_vars

\* C17 witness: set_digipot has acted on a register whose state was set to
\* HiSpeed, and the state still reads HiSpeed
C17_Witness ==
    /\ last.op = "set_digipot" /\ last.val = \h02AA
    /\ SourceConf_get_digipot(sourceconf) = \h02AA
    /\ SourceConf_get_cursource_state(sourceconf)
          = Ok(CurrentSourceState_HiSpeed)


---------------------------------------------------------------------------
(* ChannelConf with its iterator.  The iterator borrows the register, so  *)
(* set and set_all wait until it is dropped.                               *)

IterOthersUnchanged ==
    UNCHANGED << chanconf, chanconf_hist, dacvoltage, sourceconf, dacmask,
                 dacmask_aux, u32mask, fixed, overflow_checks, channels >>

\* (&reg).into_iter(): a fresh iterator, also in place of an earlier one
IterIntoIter ==
    /\ HasChannelConf
    /\ iter' = ChannelConfIterator_into_iter
    /\ last' = Op("into_iter", 0, 0, FALSE)
    /\ IterOthersUnchanged

\* it.next(); get panics before the index moves, so a panicking call
\* leaves the iterator where it was
IterNext ==
    /\ iter.active
    /\ iter' = ChannelConfIterator_next(chanconf, iter).it
    /\ last' = Op("next", iter.index,
                  ChannelConfIterator_next(chanconf, iter).item,
                  ChannelConfIterator_next(chanconf, iter).panic)
    /\ IterOthersUnchanged

\* the iterator goes out of scope
IterDrop ==
    /\ iter.active
    /\ iter' = [active |-> FALSE, index |-> 0]
    /\ last' = Op("drop", 0, 0, FALSE)
    /\ IterOthersUnchanged

ChanConfIterNext ==
    \/ ~iter.active /\ ChanConfNext
    \/ IterIntoIter
    \/ IterNext
    \/ IterDrop

SpecChannelConfIter == ChanConfInit /\ [][ChanConfIterNext]_vars


---------------------------------------------------------------------------
(* Claims about the iterator, checked under SpecChannelConfIter            *)

\* len() is the channel count given to new(), and an iterator never
\* stands beyond it
IterBounded ==
    HasChannelConf =>
       /\ ChannelConf_len(chanconf) = Len(chanconf_hist)
       /\ ChannelConf_len(chanconf) \in ChannelCounts
       /\ iter.index <= ChannelConf_len(chanconf)

\* what one call of into_iter, next or drop does
IterStep ==
    /\ last'.op \in { "into_iter", "next", "drop" } =>
          /\ chanconf' = chanconf
          /\ ChannelConf_as_u32s(chanconf') = ChannelConf_as_u32s(chanconf)
    /\ last'.op = "into_iter" => (iter'.active /\ iter'.index = 0)
    /\ last'.op = "next" =>
          /\ (/\ iter.index < ChannelConf_len(chanconf)
              /\ chanconf_hist[iter.index + 1] # 0)
                => /\ ~last'.panic
                   /\ last'.idx = iter.index
                   /\ Ok(last'.val) = ChannelConf_get(chanconf, iter.index)
                   /\ iter'.active /\ iter'.index = iter.index + 1
          /\ iter.index >= ChannelConf_len(chanconf)
                => /\ iter.index = ChannelConf_len(chanconf)
                   /\ ~last'.panic
                   /\ last'.val = ChannelConfIterator_None
                   /\ iter' = iter

\* C18: a fresh iteration starts at channel 0; while the iterator stands
\* at a channel k < N that has been set, next() yields get(k) and moves to
\* k + 1; at k = N it reports the end and stays there on every further
\* call, so a register with every channel set yields exactly its N states
\* in increasing order; iterating leaves the register and its words as
\* they were, and len() is N in every reachable state.
C18_IterationRestartableBounded ==
    []IterBounded /\ [][IterStep]_vars


\* a channel never set holds 000 and get panics on it; get does not panic
\* on a channel that has been set
UnsetChannelsPanic ==
    \A i \in 0..(ChannelConf_len(chanconf) - 1) :
        /\ chanconf_hist[i + 1] = 0 =>
              /\ SubSeq(chanconf, CHANSIZE * i + 1, CHANSIZE * (i + 1))
                    = << FALSE, FALSE, FALSE >>
              /\ ChannelConf_get(chanconf, i) = Panic
        /\ chanconf_hist[i + 1] # 0 => ~ChannelConf_get(chanconf, i).panic

\* an iteration that reaches a channel never set panics there, and on
\* every further call, as the iterator does not move
UnsetChannelStep ==
    (/\ last'.op = "next"
     /\ iter.index < ChannelConf_len(chanconf)
     /\ chanconf_hist[iter.index + 1] = 0)
       => /\ last'.panic
          /\ last'.val = ChannelConfIterator_None
          /\ chanconf' = chanconf
          /\ iter' = iter

\* C19: a channel that has not been set since new() holds the all-zero
\* code; get(i) on it panics and returns no state, and so does the next()
\* of an iteration that reaches it; get(i) does not panic on a channel that
\* set or set_all has written.
C19_UnsetChannelFailsFast ==
    []UnsetChannelsPanic /\ [][UnsetChannelStep]_vars


---------------------------------------------------------------------------
(* ChannelConf with the conversion ChannelState::from(&[bool; 3])          *)

\* every array of three booleans, indexed from 0 as in the source
Bools3 == [0..(CHANSIZE - 1) -> BOOLEAN]

\* the number the booleans spell, most significant bit first
BoolsCode(b) == 4 * BoolBit(b[0]) + 2 * BoolBit(b[1]) + BoolBit(b[2])

\* ChannelState::from(&bools)
ChannelStateFrom ==
    \E b \in Bools3 :
        /\ last' = Op("from", BoolsCode(b), ChannelState_from_bools(b).val,
                      ChannelState_from_bools(b).panic)
        /\ UNCHANGED << chanconf, chanconf_hist, dacvoltage, sourceconf,
                        dacmask, dacmask_aux, u32mask, fixed, iter, overflow_checks, channels >>

ChannelStateNext == ChanConfNext \/ ChannelStateFrom

SpecChannelState == ChanConfInit /\ [][ChannelStateNext]_vars

\* the three stored bits of channel i, in the order of the register
StoredBools(bits, i) == [k \in 0..(CHANSIZE - 1) |-> bits[CHANSIZE * i + k + 1]]

\* C20: ChannelState::from(&[b0, b1, b2]) returns the state of code
\* 4*b0 + 2*b1 + b2 when the code is in 1..6 and panics for
\* [false,false,false] and [true,true,true]; [false,true,false] is
\* CloseGND, [true,false,false] VoltArb, [false,false,true] Open; and the
\* three bits ChannelConf::set writes for a state, read in register order,
\* convert back to that state.
C20_FromBoolsMsbFirst ==
    /\ \A b \in Bools3 :
          ChannelState_from_bools(b)
             = IF BoolsCode(b) \in 1..6 THEN Ok(BoolsCode(b)) ELSE Panic
    /\ ChannelState_from_bools([k \in 0..2 |-> k = 1])
          = Ok(ChannelState_CloseGND)
    /\ ChannelState_from_bools([k \in 0..2 |-> k = 0])
          = Ok(ChannelState_VoltArb)
    /\ ChannelState_from_bools([k \in 0..2 |-> k = 2])
          = Ok(ChannelState_Open)
    /\ ChannelState_from_bools([k \in 0..2 |-> FALSE]).panic
    /\ ChannelState_from_bools([k \in 0..2 |-> TRUE]).panic
    /\ last.op = "from" =>
          /\ last.panic = (last.idx \notin 1..6)
          /\ ~last.panic => last.val = last.idx
    /\ \A i \in ChanConfIdx(ChannelConf_len(chanconf)), s \in ChannelState :
          i < ChannelConf_len(chanconf) =>
             ChannelState_from_bools(
                StoredBools(ChannelConf_set(chanconf, i, s), i)) = Ok(s)

\* C20 witness: from(&[false, true, false]) has returned CloseGND beside a
\* register in which set has written channels
C20_Witness ==
    /\ last = Op("from", 2, ChannelState_CloseGND, FALSE)
    /\ ChannelConf_len(chanconf) = 64
    /\ ChannelState_from_bools(StoredBools(chanconf, 0))
          = Ok(ChannelState_HiSpeed)

===========================================================================
